---- MODULE Spec2Model ----
(***************************************************************************)
(* Paragraph layout core of src/library/text/par.rs: ParNode flattening,   *)
(* ParLayout::new, ParLayout::line, breakpoints, break_into_lines,         *)
(* LineLayout::build / reordered / items and stack_lines.                  *)
(*                                                                         *)
(* Conventions.  Text offsets are 0-based as in the source; a range is a   *)
(* record [start, end) .  Item indices are 1-based (TLA+ sequences), so    *)
(* find returns the source's index + 1 and 0 stands for None.  An          *)
(* Option<T> is a sequence: << >> is None, <<x>> is Some(x).               *)
(*                                                                         *)
(* Text is a sequence of UTF-8 bytes and every offset is a byte offset, as *)
(* in the source.  "a" is a letter (alphabetic, class AL, bidi class L),   *)
(* "sp" is U+0020 and "nl" is U+000A, one byte each; U+FFFC, the object    *)
(* replacement character, is the three bytes "EF", "BF", "BC".             *)
(***************************************************************************)
EXTENDS Integers, Sequences, FiniteSets, TLC

\* Bounds on the number of characters of the flattened text: MaxLen when only
\* break_into_lines runs (SpecBreak, on unjustified paragraphs in a language
\* hypher knows), MaxLayoutLen when the whole of ParNode::layout runs (Spec, on
\* every combination of the styles).
MaxLen == 4
MaxLayoutLen == 3

max(a, b) == IF a >= b THEN a ELSE b
min(a, b) == IF a <= b THEN a ELSE b

\* text[s .. e] of the source (0-based, end exclusive).
Sub(t, s, e) == SubSeq(t, s + 1, e)

RECURSIVE SumSeq(_)
SumSeq(s) == IF s = << >> THEN 0 ELSE Head(s) + SumSeq(Tail(s))

RECURSIVE MaxSeq(_)
MaxSeq(s) == IF s = << >> THEN 0 ELSE max(Head(s), MaxSeq(Tail(s)))

RECURSIVE Flatten(_)
Flatten(ss) == IF ss = << >> THEN << >> ELSE Head(ss) \o Flatten(Tail(ss))

(***************************************************************************)
(* ParNode: the children and their flattening.                             *)
(***************************************************************************)
TextChars == {"a", "sp", "nl"}

TextStrings(n) == UNION {[1 .. k -> TextChars] : k \in 1 .. n}

\* Line 123: "\u{FFFC}" in UTF-8.
ObjectReplacement == <<"EF", "BF", "BC">>

\* str::chars().count(): the bytes that do not continue a character.
chars(t) == Cardinality({i \in 1 .. Len(t) : t[i] \notin {"BF", "BC"}})

\* Every ParChild whose string is at most n characters long.  ok is what the
\* layout of a node child returns: Ok (a frame) or Err.
ParChild(n) ==
  IF n < 1 THEN {}
  ELSE {[kind |-> "Text", str |-> s] : s \in TextStrings(n)}
       \cup {[kind |-> "Linear", str |-> <<"sp">>],
             [kind |-> "Fractional", str |-> <<"sp">>]}
       \cup {[kind |-> "Node", str |-> ObjectReplacement, ok |-> o] : o \in BOOLEAN}

\* Every ParNode (sequence of children) whose flattened text is at most n
\* characters long.
RECURSIVE ParNode(_)
ParNode(n) ==
  {<< >>} \cup UNION {{<<c>> \o p : p \in ParNode(n - chars(c.str))} : c \in ParChild(n)}

\* Every such ParNode with one more child, a Text child holding the empty string.
ParNodeWithEmptyText(n) ==
  UNION {{SubSeq(p, 1, k) \o <<[kind |-> "Text", str |-> << >>]>>
            \o SubSeq(p, k + 1, Len(p)) : k \in 0 .. Len(p)} : p \in ParNode(n)}

strings(par) == [i \in 1 .. Len(par) |-> par[i].str]

collect_text(par) == Flatten(strings(par))

RECURSIVE ranges_from(_, _)
ranges_from(strs, cursor) ==
  IF strs = << >> THEN << >>
  ELSE <<[start |-> cursor, end |-> cursor + Len(Head(strs))]>>
       \o ranges_from(Tail(strs), cursor + Len(Head(strs)))

ParNode_ranges(par) == ranges_from(strings(par), 0)

(***************************************************************************)
(* The shaper (super::shape, ShapedText): a shaped run keeps its text, its *)
(* direction, its size, its baseline and the number of hyphen glyphs       *)
(* pushed onto it.  Every glyph, the hyphen included, advances by 1.       *)
(***************************************************************************)
shape(t, d) ==
  [kind |-> "Text", text |-> t, dir |-> d, x |-> Len(t), y |-> 2, baseline |-> 1,
   fr |-> 0, hyphens |-> 0]

\* shaped.reshape(fonts, a .. b): shape the sub-range of the run's own text.
reshape(shaped, a, b) == shape(Sub(shaped.text, a, b), shaped.dir)

push_hyphen(shaped) ==
  [shaped EXCEPT !.x = @ + 1, !.hyphens = @ + 1]

\* ShapedText::spaces: the number of space glyphs of the run.
ShapedText_spaces(shaped) ==
  Cardinality({i \in 1 .. Len(shaped.text) : shaped.text[i] = "sp"})

\* The other ParItem variants, in the record shape of a shaped run.
Absolute == [kind |-> "Absolute", text |-> << >>, dir |-> "", x |-> 1, y |-> 0, baseline |-> 0,
             fr |-> 0, hyphens |-> 0]
Fractional == [kind |-> "Fractional", text |-> << >>, dir |-> "", x |-> 0, y |-> 0, baseline |-> 0,
               fr |-> 1, hyphens |-> 0]
Frame == [kind |-> "Frame", text |-> << >>, dir |-> "", x |-> 1, y |-> 3, baseline |-> 3,
          fr |-> 0, hyphens |-> 0]

(***************************************************************************)
(* Unicode helpers of the standard library.                                *)
(***************************************************************************)
is_whitespace(c) == c \in {"sp", "nl"}
is_alphabetic(c) == c = "a"

RECURSIVE trim_end(_)
trim_end(t) ==
  IF t # << >> /\ is_whitespace(t[Len(t)]) THEN trim_end(SubSeq(t, 1, Len(t) - 1))
  ELSE t

RECURSIVE trim_end_not_alphabetic(_)
trim_end_not_alphabetic(t) ==
  IF t # << >> /\ ~is_alphabetic(t[Len(t)])
  THEN trim_end_not_alphabetic(SubSeq(t, 1, Len(t) - 1))
  ELSE t

\* Length::fits: self >= other (up to the float tolerance).
fits(self, other) == self >= other

(***************************************************************************)
(* The state: the inputs of ParNode::layout, the ParLayout built from      *)
(* them, and the locals of break_into_lines and stack_lines.               *)
(***************************************************************************)
VARIABLES
  par,        \* ParNode.0: the children
  width,      \* regions.first.x, the width break_into_lines is given
  justify,    \* ParNode::JUSTIFY
  hyphenate,  \* ParNode::HYPHENATE: "auto", "on" (Custom(true)), "off" (Custom(false))
  lang,       \* ParNode::LANG: "none" or "en"
  dir,        \* ParNode::DIR: "ltr" or "rtl"
  align,      \* ParNode::ALIGN: "left", "center" or "right"
  hyph,       \* what hypher answers: the offsets of the syllable boundaries
  text,       \* ParLayout.bidi.text
  items,      \* ParLayout.items
  ranges,     \* ParLayout.ranges
  pc,         \* "break", "stack_begin", "stack", "done", "panic", or "err": layout
              \* returned the Err of ParLayout::new (line 145)
  iter,       \* the break candidates breakpoints has yet to yield
  start,      \* break_into_lines: start
  last,       \* break_into_lines: last, an Option<(LineLayout, usize)>
  lines,      \* break_into_lines: lines, then the argument of stack_lines
  built,      \* history: the lines ParLayout::line built in the latest iteration
  taken,      \* history: the candidates the for loop has taken
  regions,    \* stack_lines: regions (first.y, backlog, last, expand.x)
  par_width,  \* stack_lines: width
  finished,   \* stack_lines: finished
  first,      \* stack_lines: first
  output,     \* stack_lines: output
  todo,       \* stack_lines: the lines the for loop has yet to take
  advances,   \* history: for each regions.next() of stack_lines, what it left behind
  entered     \* history: the height the current region had when stack_lines entered
              \* it, and whether every line stacked into it passed the fits check

vars == <<par, width, justify, hyphenate, lang, dir, align, hyph, text, items, ranges,
          pc, iter, start, last, lines, built, taken, regions, par_width, finished,
          first, output, todo, advances, entered>>

(***************************************************************************)
(* BidiInfo::new (unicode_bidi, UAX #9) on the four characters.  A         *)
(* paragraph ends after each newline; its level is the one layout passes.  *)
(* At level 0 every character resolves to level 0.  At level 1 a letter    *)
(* (class L) gets level 2 (rule I2); a space or U+FFFC (neutral) gets      *)
(* level 2 between two letters of its paragraph (N1) and level 1 otherwise *)
(* (N2); a newline keeps the paragraph level.  Levels are kept per byte.   *)
(***************************************************************************)
\* Lines 137-141: the level BidiInfo::new is given.  The other values of DIR
\* let it detect the level, which is 0 for these characters.
para_level == IF dir = "rtl" THEN 1 ELSE 0

\* Whether a letter comes before (after) position i in the paragraph of i.
RECURSIVE strong_before(_, _)
strong_before(t, i) ==
  IF i <= 1 \/ t[i - 1] = "nl" THEN FALSE
  ELSE IF t[i - 1] = "a" THEN TRUE
  ELSE strong_before(t, i - 1)

RECURSIVE strong_after(_, _)
strong_after(t, i) ==
  IF i >= Len(t) \/ t[i] = "nl" THEN FALSE
  ELSE IF t[i + 1] = "a" THEN TRUE
  ELSE strong_after(t, i + 1)

\* The level of the byte at position i.
level_at(t, i) ==
  IF para_level = 0 THEN 0
  ELSE IF t[i] = "a" THEN 2
  ELSE IF t[i] # "nl" /\ strong_before(t, i) /\ strong_after(t, i) THEN 2
  ELSE 1

RECURSIVE levels_from(_, _)
levels_from(t, i) ==
  IF i > Len(t) THEN << >> ELSE <<level_at(t, i)>> \o levels_from(t, i + 1)

\* bidi.levels.
levels(t) == levels_from(t, 1)

(***************************************************************************)
(* ParLayout::new.  group() yields the runs of equal level as (level,      *)
(* count).                                                                 *)
(***************************************************************************)

\* The number of equal elements from the k-th on.
RECURSIVE run_length(_, _)
run_length(ls, k) ==
  IF k < Len(ls) /\ ls[k + 1] = ls[k] THEN 1 + run_length(ls, k + 1) ELSE 1

RECURSIVE group_from(_, _)
group_from(ls, k) ==
  IF k > Len(ls) THEN << >>
  ELSE <<[level |-> ls[k], count |-> run_length(ls, k)]>>
       \o group_from(ls, k + run_length(ls, k))

\* SliceExt::group: the runs of equal elements, each with its length (the
\* slice is bound to a name so that it is evaluated once).
group(ls) == CHOOSE runs \in {group_from(slice, 1) : slice \in {ls}} : TRUE

\* The (item, range) pairs one text child expands to: one for each of the
\* groups from the k-th on, the cursor at the start of the k-th.
RECURSIVE text_items(_, _, _, _)
text_items(t, groups, k, cursor) ==
  IF k > Len(groups) THEN << >>
  ELSE LET sub == [start |-> cursor, end |-> cursor + groups[k].count]
           d == IF groups[k].level % 2 = 0 THEN "ltr" ELSE "rtl"
       IN <<[item |-> shape(Sub(t, sub.start, sub.end), d), range |-> sub]>>
          \o text_items(t, groups, k + 1, sub.end)

RECURSIVE new_from(_, _, _)
new_from(t, children, rs) ==
  IF children = << >> THEN << >>
  ELSE LET child == Head(children)
           range == Head(rs)
           here == CASE child.kind = "Text" ->
                          text_items(t, group(Sub(levels(t), range.start, range.end)),
                                     1, range.start)
                     [] child.kind = "Linear" -> <<[item |-> Absolute, range |-> range]>>
                     [] child.kind = "Fractional" ->
                          <<[item |-> Fractional, range |-> range]>>
                     [] OTHER -> <<[item |-> Frame, range |-> range]>>
       IN here \o new_from(t, Tail(children), Tail(rs))

\* Line 273: the `?` on the layout of a node child.
node_layout_fails(children) ==
  \E i \in 1 .. Len(children) : children[i].kind = "Node" /\ ~children[i].ok

\* The ParLayout of a paragraph: bidi.text, items and ranges; or, with err, the
\* Err of the first node child whose layout fails, and no items at all.
ParLayout_new(children) ==
  LET t == collect_text(children)
      pairs == new_from(t, children, ParNode_ranges(children))
  IN IF node_layout_fails(children)
     THEN [text |-> t, items |-> << >>, ranges |-> << >>, err |-> TRUE]
     ELSE [text |-> t,
           items |-> [i \in 1 .. Len(pairs) |-> pairs[i].item],
           ranges |-> [i \in 1 .. Len(pairs) |-> pairs[i].range],
           err |-> FALSE]

\* A lookup whose ranges leave out their start and take in their end.
find_after_start(rs, text_offset) ==
  LET hit == {i \in 1 .. Len(rs) : rs[i].start < text_offset /\ text_offset <= rs[i].end}
  IN IF hit = {} THEN 0 ELSE CHOOSE i \in hit : TRUE

\* binary_search_by(|r| r.locate(text_offset)).ok(): index + 1, or 0 for None.
find(rs, text_offset) ==
  LET hit == {i \in 1 .. Len(rs) : rs[i].start <= text_offset /\ text_offset < rs[i].end}
  IN IF hit = {} THEN 0 ELSE CHOOSE i \in hit : TRUE

ParLayout_find(text_offset) == find(ranges, text_offset)

(***************************************************************************)
(* ParLayout::line.  The record is the LineLayout; upto and hyphen keep    *)
(* the range.end and hyphen arguments of the call, and panic says that an  *)
(* unwrap or a slice failed.                                               *)
(***************************************************************************)
measure(all, range, first_o, middle, last_o, sl_ranges, mandatory, upto, hyphen) ==
  LET boxes == SelectSeq(all, LAMBDA it : it.kind \in {"Text", "Frame"})
      top == MaxSeq([i \in 1 .. Len(boxes) |-> boxes[i].baseline])
      bottom == MaxSeq([i \in 1 .. Len(boxes) |-> boxes[i].y - boxes[i].baseline])
  IN [range |-> range, first |-> first_o, items |-> middle, last |-> last_o,
      ranges |-> sl_ranges,
      size |-> [x |-> SumSeq([i \in 1 .. Len(all) |-> all[i].x]), y |-> top + bottom],
      baseline |-> top,
      fr |-> SumSeq([i \in 1 .. Len(all) |-> all[i].fr]),
      mandatory |-> mandatory,
      upto |-> upto, hyphen |-> hyphen, panic |-> FALSE]

line_panic(s, e, mandatory, hyphen) ==
  [range |-> [start |-> s, end |-> e], first |-> << >>, items |-> << >>, last |-> << >>,
   ranges |-> << >>, size |-> [x |-> 0, y |-> 0], baseline |-> 0, fr |-> 0,
   mandatory |-> mandatory, upto |-> e, hyphen |-> hyphen, panic |-> TRUE]

\* Lines 303-330: the last item, which is stored reshaped when the line cuts it.
line_last(sl_items, s, e, hyphen, last_idx) ==
  LET n == Len(sl_items)
      shaped == sl_items[n]
      rest == SubSeq(sl_items, 1, n - 1)
      base == ranges[last_idx].start
      start_l == max(s, base)
      end_l == start_l + Len(trim_end(Sub(text, start_l, e)))
      cut == shaped.kind = "Text" /\ end_l - start_l < Len(shaped.text)
      reshaped == reshape(shaped, start_l - base, end_l - base)
  IN [last |-> IF cut /\ (start_l < end_l \/ rest = << >>)
               THEN <<IF hyphen THEN push_hyphen(reshaped) ELSE reshaped>>
               ELSE << >>,
      items |-> IF cut THEN rest ELSE sl_items,
      end |-> IF cut THEN end_l ELSE e]

\* Lines 332-350: the first item, unless the last block took it already.
line_first(its, s, range_end, first_idx) ==
  LET shaped == its[1]
      base == ranges[first_idx].start
      first_end == ranges[first_idx].end
      end_f == min(range_end, first_end)
      cut == its # << >> /\ shaped.kind = "Text" /\ max(end_f - s, 0) < Len(shaped.text)
  IN [first |-> IF cut /\ s < end_f THEN <<reshape(shaped, s - base, end_f - base)>>
                ELSE << >>,
      items |-> IF cut THEN Tail(its) ELSE its]

line(s, e, mandatory, hyphen) ==
  LET last_idx == ParLayout_find(IF e > 0 THEN e - 1 ELSE 0)
      first_idx == IF s >= e THEN last_idx ELSE ParLayout_find(s)
  IN IF last_idx = 0 \/ first_idx = 0 \/ first_idx > last_idx
     THEN line_panic(s, e, mandatory, hyphen)
     ELSE LET sl_items == SubSeq(items, first_idx, last_idx)
              sl_ranges == SubSeq(ranges, first_idx, last_idx)
              l == line_last(sl_items, s, e, hyphen, last_idx)
              f == line_first(l.items, s, l.end, first_idx)
          IN measure(f.first \o f.items \o l.last, [start |-> s, end |-> l.end],
                     f.first, f.items, l.last, sl_ranges, mandatory, e, hyphen)

(***************************************************************************)
(* breakpoints.                                                            *)
(***************************************************************************)
\* xi_unicode::LineBreakIterator on the four characters: no break in an empty
\* text (LB2), a mandatory break after a newline (LB5) and at the end of the text
\* (LB3), none before a space or a newline (LB6, LB7), one after spaces (LB18) and
\* one before and after U+FFFC (LB20), none between letters (LB28), and none
\* inside a character.
LineBreakIterator(t) ==
  LET n == Len(t)
      breaks(p) == /\ t[p + 1] \notin {"BF", "BC"}
                   /\ \/ t[p] = "nl"
                      \/ /\ ~is_whitespace(t[p + 1])
                         /\ (t[p] = "sp" \/ t[p] = "BC" \/ t[p + 1] = "EF")
      inner == SelectSeq([p \in 1 .. n - 1 |-> p], breaks)
  IN IF n = 0 THEN << >>
     ELSE [i \in 1 .. Len(inner) |-> [end |-> inner[i], mandatory |-> t[inner[i]] = "nl"]]
          \o <<[end |-> n, mandatory |-> TRUE]>>

\* hypher::hyphenate(trimmed, lang): the syllables (their lengths) of the word
\* text[from .. suffix], cut at the boundaries hypher finds inside it.
RECURSIVE hypher_hyphenate(_, _)
hypher_hyphenate(from, suffix) ==
  LET inside == {p \in hyph : from < p /\ p < suffix}
      nxt == CHOOSE p \in inside : \A q \in inside : p <= q
  IN IF inside = {} THEN <<suffix - from>>
     ELSE <<nxt - from>> \o hypher_hyphenate(nxt, suffix)

\* A closure that keeps the mandatory flag on a hyphenated candidate.
syllable_break_unmasked(moved, suffix, end, mandatory) ==
  LET at == IF moved = suffix THEN end ELSE moved
  IN [end |-> at, mandatory |-> mandatory, hyphen |-> at < end]

\* Lines 608-613: the closure mapped over the syllables; moved is start after
\* `start += syllable.len()`.
syllable_break(moved, suffix, end, mandatory) ==
  LET at == IF moved = suffix THEN end ELSE moved
      hyphen == at < end
  IN [end |-> at, mandatory |-> mandatory /\ ~hyphen, hyphen |-> hyphen]

\* Line 607: the map over the syllables, `start` running along.
RECURSIVE syllable_breaks(_, _, _, _, _)
syllable_breaks(syllables, from, suffix, end, mandatory) ==
  IF syllables = << >> THEN << >>
  ELSE LET c == syllable_break(from + Head(syllables), suffix, end, mandatory)
       IN <<c>> \o syllable_breaks(Tail(syllables), c.end, suffix, end, mandatory)

\* Lines 599-616: the flat_map over the line breaks; from is the closure's `last`.
RECURSIVE hyphenated_breaks(_, _, _)
hyphenated_breaks(t, breaks, from) ==
  IF breaks = << >> THEN << >>
  ELSE LET b == Head(breaks)
           word == Sub(t, from, b.end)
           trimmed == trim_end_not_alphabetic(word)
           suffix == from + Len(trimmed)
           here == IF trimmed = << >>
                   THEN <<[end |-> b.end, mandatory |-> b.mandatory, hyphen |-> FALSE]>>
                   ELSE syllable_breaks(hypher_hyphenate(from, suffix), from, suffix, b.end,
                                        b.mandatory)
       IN here \o hyphenated_breaks(t, Tail(breaks), b.end)

\* Lines 586-593: the language to hyphenate in, if any.
hyphenation_lang ==
  IF (IF hyphenate = "auto" THEN justify ELSE hyphenate = "on") /\ lang = "en"
  THEN <<lang>> ELSE << >>

breakpoints(t) ==
  LET breaks == LineBreakIterator(t)
  IN IF hyphenation_lang # << >> THEN hyphenated_breaks(t, breaks, 0)
     ELSE [i \in 1 .. Len(breaks) |->
             [end |-> breaks[i].end, mandatory |-> breaks[i].mandatory, hyphen |-> FALSE]]

(***************************************************************************)
(* LineLayout.                                                             *)
(***************************************************************************)
LineLayout_items(l) == l.first \o l.items \o l.last

LineLayout_shapeds(l) == SelectSeq(LineLayout_items(l), LAMBDA it : it.kind = "Text")

LineLayout_spaces(l) ==
  LET shapeds == LineLayout_shapeds(l)
  IN SumSeq([i \in 1 .. Len(shapeds) |-> ShapedText_spaces(shapeds[i])])

LineLayout_find(l, text_offset) == find(l.ranges, text_offset)

\* items().nth(index): an Option.
LineLayout_get(l, index) ==
  IF index >= 1 /\ index <= Len(LineLayout_items(l))
  THEN <<LineLayout_items(l)[index]>> ELSE << >>

\* Rule L1 of bidi.visual_runs(para, range): in the line, a newline, the
\* spaces before it and the spaces at the end of the line get the paragraph
\* level.
line_levels(range) ==
  LET ls == levels(text)
      reset(p) ==
        \/ text[p] = "nl"
        \/ /\ text[p] = "sp"
           /\ \A q \in p + 1 .. range.end :
                text[q] = "sp" \/ (text[q] = "nl" /\ \A k \in p + 1 .. q - 1 : text[k] = "sp")
  IN [p \in 1 .. Len(text) |->
        IF range.start < p /\ p <= range.end /\ reset(p) THEN para_level ELSE ls[p]]

\* Rule L2, one level: every sequence of runs at that level or higher, reversed.
RECURSIVE reverse_sequences(_, _, _)
reverse_sequences(runs, lvl, pending) ==
  IF runs = << >> THEN pending
  ELSE IF Head(runs).level >= lvl
       THEN reverse_sequences(Tail(runs), lvl, <<Head(runs)>> \o pending)
       ELSE pending \o <<Head(runs)>> \o reverse_sequences(Tail(runs), lvl, << >>)

\* Rule L2: from the highest level down to the lowest odd level.
RECURSIVE reorder_runs(_, _, _)
reorder_runs(runs, lvl, lowest) ==
  IF lvl < lowest THEN runs
  ELSE reorder_runs(reverse_sequences(runs, lvl, << >>), lvl - 1, lowest)

\* The level runs of the line, left to right in the text.
RECURSIVE runs_from(_, _)
runs_from(groups, cursor) ==
  IF groups = << >> THEN << >>
  ELSE <<[start |-> cursor, end |-> cursor + Head(groups).count,
          level |-> Head(groups).level]>>
       \o runs_from(Tail(groups), cursor + Head(groups).count)

\* bidi.visual_runs(para, range): the level runs of the line in visual order.
visual_runs(range) ==
  LET runs == runs_from(group(Sub(line_levels(range), range.start, range.end)),
                        range.start)
      lvls == [i \in 1 .. Len(runs) |-> runs[i].level]
      lowest == MaxSeq(lvls) - MaxSeq([i \in 1 .. Len(lvls) |-> MaxSeq(lvls) - lvls[i]])
  IN reorder_runs(runs, MaxSeq(lvls), IF lowest % 2 = 0 THEN lowest + 1 ELSE lowest)

RECURSIVE indices(_, _)
indices(from, to) == IF from > to THEN << >> ELSE <<from>> \o indices(from + 1, to)

RECURSIVE reversed(_)
reversed(s) == IF s = << >> THEN << >> ELSE reversed(Tail(s)) \o <<Head(s)>>

\* LineLayout::reordered before its final map: the item indices in visual order.
RECURSIVE run_indices(_, _)
run_indices(l, runs) ==
  IF runs = << >> THEN << >>
  ELSE LET run == Head(runs)
           first_idx == LineLayout_find(l, run.start)
           last_idx == LineLayout_find(l, run.end - 1)
           forward == indices(first_idx, last_idx)
       IN (IF run.level % 2 = 0 THEN forward ELSE reversed(forward))
          \o run_indices(l, Tail(runs))

reordered_indices(l) ==
  run_indices(l, IF l.range.start < l.range.end THEN visual_runs(l.range) ELSE << >>)

\* LineLayout::reordered: the items in visual order (each an Option: the get
\* of an index outside items() is None, and its unwrap panics).
reordered(l) ==
  LET idx == reordered_indices(l)
  IN [i \in 1 .. Len(idx) |-> LineLayout_get(l, idx[i])]

(***************************************************************************)
(* LineLayout::build.  Horizontal lengths of the built frame are kept      *)
(* multiplied by `scale` (the product of the divisors of the divisions the *)
(* build does: spaces() when it justifies, fr when it resolves fractions,  *)
(* 2 when it centers), so that they stay integers.  justification is the   *)
(* fraction num / den; den = 0 is the float division by zero, whose result *)
(* no glyph receives.                                                      *)
(***************************************************************************)
\* ShapedText::build(fonts, justification): the run's width, every space glyph
\* widened by the justification.
ShapedText_build_x(shaped, jst, scale) ==
  shaped.x * scale
  + (IF ShapedText_spaces(shaped) > 0
     THEN ShapedText_spaces(shaped) * jst.num * (scale \div jst.den) ELSE 0)

\* Align::resolve(remaining): nothing, half or all of the remaining length.
Align_resolve(al, remaining, scale) ==
  CASE al = "left" -> 0
    [] al = "center" -> remaining * (scale \div 2)
    [] OTHER -> remaining * scale

RECURSIVE place(_, _, _, _, _, _, _)
place(its, offset, l, remaining, jst, scale, al) ==
  IF its = << >> THEN [placed |-> << >>, offset |-> offset]
  ELSE LET it == Head(its)
           advance ==
             CASE it.kind = "Absolute" -> it.x * scale
               [] it.kind = "Fractional" ->
                    IF l.fr > 0 THEN it.fr * remaining * (scale \div l.fr) ELSE 0
               [] it.kind = "Text" -> ShapedText_build_x(it, jst, scale)
               [] OTHER -> it.x * scale
           here == IF it.kind \in {"Text", "Frame"}
                   THEN <<[x |-> offset + Align_resolve(al, remaining, scale),
                           y |-> l.baseline - it.baseline, item |-> it]>>
                   ELSE << >>
           rest == place(Tail(its), offset + advance, l, remaining, jst, scale, al)
       IN [placed |-> here \o rest.placed, offset |-> rest.offset]

build(l, w, al, jst_on) ==
  LET apply == jst_on /\ ~l.mandatory /\ l.range.end < Len(text) /\ l.fr = 0
      spaces == LineLayout_spaces(l)
      justification == IF apply THEN [num |-> w - l.size.x, den |-> spaces]
                       ELSE [num |-> 0, den |-> 1]
      remaining == IF apply THEN 0 ELSE w - l.size.x
      scale == (IF al = "center" THEN 2 ELSE 1)
               * (IF apply /\ spaces > 0 THEN spaces ELSE IF l.fr > 0 THEN l.fr ELSE 1)
      visited == reordered(l)
      found == SelectSeq(visited, LAMBDA o : o # << >>)
      done == place([i \in 1 .. Len(found) |-> found[i][1]], 0, l, remaining,
                    justification, scale, al)
  IN [size |-> [x |-> w, y |-> l.size.y], baseline |-> l.baseline,
      placed |-> done.placed, offset |-> done.offset, scale |-> scale,
      justified |-> apply, justification |-> justification,
      line |-> l, panic |-> Len(found) < Len(visited)]

(***************************************************************************)
(* Regions (crate::library::prelude): the height left in the current       *)
(* region, the heights of the regions that follow, and the height of the   *)
(* region that repeats after them, if any.                                 *)
(***************************************************************************)
Regions_in_last(r) ==
  r.backlog = << >> /\ (r.last = << >> \/ r.first_y = r.last[1])

Regions_next(r) ==
  IF r.backlog # << >>
  THEN [r EXCEPT !.first_y = Head(r.backlog), !.backlog = Tail(r.backlog)]
  ELSE IF r.last # << >> THEN [r EXCEPT !.first_y = r.last[1]]
  ELSE r

\* Frame::new(Size::with_x(width)), with the sub-frames merged into it.
Frame_new(w) == [size |-> [x |-> w, y |-> 0], children |-> << >>]

\* ParNode::LEADING resolved against the font size.
leading == 1

(***************************************************************************)
(* The inputs.                                                             *)
(***************************************************************************)
Widths == {1, 2}

HyphenateValues == {"auto", "on", "off"}

Langs == {"none", "en"}

Dirs == {"ltr", "rtl"}

Aligns == {"left", "center", "right"}

\* The offsets between two letters: where a syllable boundary can lie.
LetterGaps(t) == {p \in 1 .. Len(t) - 1 : is_alphabetic(t[p]) /\ is_alphabetic(t[p + 1])}

\* The regions stack_lines is given: one region that takes every line, three
\* regions of growing height, a region followed by a repeating one; for each,
\* regions.expand.x.
RegionsInputs ==
  {[first_y |-> 8, backlog |-> << >>, last |-> << >>, expand_x |-> FALSE],
   [first_y |-> 2, backlog |-> <<2, 4>>, last |-> << >>, expand_x |-> TRUE],
   [first_y |-> 2, backlog |-> <<3>>, last |-> << >>, expand_x |-> FALSE],
   [first_y |-> 3, backlog |-> << >>, last |-> <<4>>, expand_x |-> TRUE]}

NoRegions == [first_y |-> 0, backlog |-> << >>, last |-> << >>, expand_x |-> FALSE]

InitWith(pars, justifies, langs) ==
  /\ par \in pars
  /\ dir \in Dirs
  /\ \E layout \in {ParLayout_new(par)} :
       /\ text = layout.text
       /\ items = layout.items
       /\ ranges = layout.ranges
       /\ pc = IF layout.err THEN "err" ELSE "break"
  /\ width \in Widths
  /\ justify \in justifies
  /\ hyphenate \in HyphenateValues
  /\ lang \in langs
  /\ align = "left"
  /\ hyph \in (IF hyphenation_lang # << >> /\ pc # "err"
               THEN SUBSET LetterGaps(text) ELSE {{}})
  /\ iter = IF pc = "err" THEN << >> ELSE breakpoints(text)
  /\ start = 0
  /\ last = << >>
  /\ lines = << >>
  /\ built = << >>
  /\ taken = << >>
  /\ regions = NoRegions
  /\ par_width = 0
  /\ finished = << >>
  /\ first = TRUE
  /\ output = Frame_new(0)
  /\ todo = << >>
  /\ advances = << >>
  /\ entered = [height |-> 0, fitted |-> TRUE]

Init == InitWith(ParNode(MaxLayoutLen), BOOLEAN, Langs)

\* break_into_lines is entered only with a ParLayout, so after ParLayout::new
\* returned Ok.
InitBreak ==
  InitWith({p \in ParNode(MaxLen) \cup ParNodeWithEmptyText(MaxLen - 2) :
              ~node_layout_fails(p)}, {FALSE}, {"en"})

stack_vars == <<align, regions, par_width, finished, first, output, todo, advances,
                entered>>
input_vars == <<par, width, justify, hyphenate, lang, dir, hyph, text, items, ranges>>
break_vars == <<iter, start, last, lines, built, taken>>

(***************************************************************************)
(* break_into_lines.                                                       *)
(***************************************************************************)
\* A rebuild that forgets to move start to the end of the saved line.
restart_in_place(take, saved, from) == from

\* Lines 555-557: start after `if let Some((last_line, last_end)) = last.take()`.
restart(take, saved, from) == IF take THEN saved[1].end ELSE from

\* A line is finished only when it overflows.
finishes_on_overflow(mandatory, x) == ~fits(width, x)

\* A line is finished only at a mandatory break.
finishes_when_mandatory(mandatory, x) == mandatory

\* Line 565: whether the current line is finished at this candidate.
finishes(mandatory, x) == mandatory \/ ~fits(width, x)

\* Lines 547-572: one iteration of the for loop.
break_step ==
  /\ pc = "break"
  /\ iter # << >>
  /\ LET c == Head(iter)
         line0 == line(start, c.end, c.mandatory, c.hyphen)
         take == ~fits(width, line0.size.x) /\ last # << >>
         start1 == restart(take, last, start)
         lines1 == IF take THEN Append(lines, last[1].line) ELSE lines
         line1 == IF take THEN line(start1, c.end, c.mandatory, c.hyphen) ELSE line0
         finish == finishes(c.mandatory, line1.size.x)
     IN /\ lines' = IF finish THEN Append(lines1, line1) ELSE lines1
        /\ start' = IF finish THEN c.end ELSE start1
        /\ last' = IF finish THEN << >> ELSE <<[line |-> line1, end |-> c.end]>>
        /\ built' = IF take THEN <<line0, line1>> ELSE <<line0>>
        /\ pc' = IF line0.panic \/ line1.panic THEN "panic" ELSE "break"
  /\ iter' = Tail(iter)
  /\ taken' = Append(taken, Head(iter))
  /\ UNCHANGED <<input_vars, stack_vars>>

\* Lines 574-578: after the loop; layout then hands the lines to stack_lines.
break_finish ==
  /\ pc = "break"
  /\ iter = << >>
  /\ lines' = IF last # << >> THEN Append(lines, last[1].line) ELSE lines
  /\ pc' = "stack_begin"
  /\ UNCHANGED <<input_vars, stack_vars, iter, start, last, built, taken>>

(***************************************************************************)
(* stack_lines.                                                            *)
(***************************************************************************)
\* Lines 629-645: the paragraph's width and the state of the loop.  The heights
\* of the regions, regions.expand.x and ALIGN are inputs read here for the first
\* time.
stack_begin ==
  /\ pc = "stack_begin"
  /\ align' \in Aligns
  /\ \E r \in RegionsInputs :
       /\ regions' = r
       /\ par_width' =
            IF ~r.expand_x /\ \A i \in 1 .. Len(lines) : lines[i].fr = 0
            THEN MaxSeq([i \in 1 .. Len(lines) |-> lines[i].size.x])
            ELSE width
  /\ finished' = << >>
  /\ first' = TRUE
  /\ output' = Frame_new(par_width')
  /\ todo' = lines
  /\ entered' = [height |-> regions'.first_y, fitted |-> TRUE]
  /\ pc' = "stack"
  /\ UNCHANGED <<input_vars, break_vars, advances>>

\* A loop that also leaves the last region.
must_advance_from_last(r, l) == ~fits(r.first_y, l.size.y)

\* Line 649: the condition of the while loop.
must_advance(r, l) == ~fits(r.first_y, l.size.y) /\ ~Regions_in_last(r)

\* Lines 649-654: one iteration of the while loop.
stack_advance ==
  /\ pc = "stack"
  /\ todo # << >>
  /\ must_advance(regions, Head(todo))
  /\ finished' = Append(finished, output)
  /\ output' = Frame_new(par_width)
  /\ regions' = Regions_next(regions)
  /\ first' = TRUE
  /\ advances' = Append(advances, [fits |-> fits(regions.first_y, Head(todo).size.y),
                                   in_last |-> Regions_in_last(regions)])
  /\ entered' = [height |-> regions'.first_y, fitted |-> TRUE]
  /\ UNCHANGED <<input_vars, break_vars, pc, par_width, todo, align>>

\* Leading before every line, the first line of a region included.
cursor_with_leading(is_first, y) == y + leading

\* Lines 656-658: the vertical cursor, after leading between two lines.
cursor(is_first, y) == IF ~is_first THEN y + leading ELSE y

\* Lines 656-666: the line is built and stacked into the current region.
stack_line ==
  /\ pc = "stack"
  /\ todo # << >>
  /\ ~must_advance(regions, Head(todo))
  /\ LET l == Head(todo)
         y0 == cursor(first, output.size.y)
         frame == build(l, par_width, align, justify)
     IN /\ output' = [size |-> [x |-> output.size.x, y |-> y0 + frame.size.y],
                      children |-> Append(output.children, [y |-> y0, frame |-> frame])]
        /\ regions' = [regions EXCEPT !.first_y = @ - (l.size.y + leading)]
        /\ pc' = IF frame.panic THEN "panic" ELSE "stack"
  /\ first' = FALSE
  /\ todo' = Tail(todo)
  /\ entered' = [entered EXCEPT
                   !.fitted = @ /\ fits(regions.first_y, Head(todo).size.y)]
  /\ UNCHANGED <<input_vars, break_vars, par_width, finished, advances, align>>

\* Lines 669-670: the last frame.
stack_finish ==
  /\ pc = "stack"
  /\ todo = << >>
  /\ finished' = Append(finished, output)
  /\ pc' = "done"
  /\ UNCHANGED <<input_vars, break_vars, regions, par_width, first, output, todo,
                 advances, entered, align>>

Next ==
  \/ break_step
  \/ break_finish
  \/ stack_begin
  \/ stack_advance
  \/ stack_line
  \/ stack_finish

\* ParNode::layout: break_into_lines, then stack_lines.
Spec == Init /\ [][Next]_vars

NextBreak ==
  \/ break_step
  \/ break_finish

\* break_into_lines alone, on longer paragraphs.
SpecBreak == InitBreak /\ [][NextBreak]_vars

(***************************************************************************)
(* Properties.                                                             *)
(***************************************************************************)
\* break_into_lines has returned: `lines` is its result.
Broken == pc \in {"stack_begin", "stack", "done"}

\* C1 as stated: the `range` fields of the returned lines, in order, tile
\* [0, len(text)): the first starts at 0, each ends where the next starts, and
\* the last ends at len(text).
C1_RangesTileText ==
  Broken =>
    IF lines = << >> THEN Len(text) = 0
    ELSE /\ lines[1].range.start = 0
         /\ \A i \in 1 .. Len(lines) - 1 : lines[i].range.end = lines[i + 1].range.start
         /\ lines[Len(lines)].range.end = Len(text)

\* C1 amended: the ranges start .. end that the returned lines were built for
\* tile [0, len(text)); each line's `range` starts where its built-for range
\* starts and ends at or before its end, and what it leaves out, text[range.end
\* .. end), is whitespace only.  So the `range` fields are in order and never
\* overlap, and every gap between them is trimmed trailing whitespace.
C1_BuiltRangesTileText ==
  Broken =>
    /\ IF lines = << >> THEN Len(text) = 0
       ELSE /\ lines[1].range.start = 0
            /\ \A i \in 1 .. Len(lines) - 1 : lines[i].upto = lines[i + 1].range.start
            /\ lines[Len(lines)].upto = Len(text)
    /\ \A i \in 1 .. Len(lines) :
         /\ lines[i].range.start <= lines[i].range.end
         /\ lines[i].range.end <= lines[i].upto
         /\ \A p \in lines[i].range.end + 1 .. lines[i].upto : is_whitespace(text[p])

\* C1 witness: two lines were returned and the first one's range was trimmed.
C1_Witness ==
  Broken /\ Len(lines) >= 2 /\ lines[1].range.end < lines[1].upto

\* The last text item of a line, as an Option.
LastShaped(l) ==
  LET shapeds == LineLayout_shapeds(l)
  IN IF shapeds = << >> THEN << >> ELSE <<shapeds[Len(shapeds)]>>

\* C2: every line ParLayout::line builds with hyphen = true has exactly one
\* hyphen glyph on its last text item.
C2_HyphenPushedOnce ==
  \A i \in 1 .. Len(built) :
    built[i].hyphen =>
      LastShaped(built[i]) # << >> /\ LastShaped(built[i])[1].hyphens = 1

\* C3: for every mandatory candidate k taken so far, a line built for a range
\* ending at k was committed with mandatory = true, the line committed after it
\* (if any) starts at k, and no committed line spans across k.
C3_MandatoryBreakHonoured ==
  pc # "panic" =>
    \A j \in 1 .. Len(taken) :
      taken[j].mandatory =>
        /\ \E i \in 1 .. Len(lines) :
             /\ lines[i].upto = taken[j].end
             /\ lines[i].mandatory
             /\ i < Len(lines) => lines[i + 1].range.start = taken[j].end
        /\ \A i \in 1 .. Len(lines) :
             ~(lines[i].range.start < taken[j].end /\ taken[j].end < lines[i].upto)

\* C3 witness: a mandatory candidate before the end of the text overflowed while
\* a fitting line was saved, in a paragraph that is hyphenated; the saved line
\* and the rebuilt mandatory line were both committed.
C3_Witness ==
  /\ pc = "break" /\ iter # << >> /\ hyphenation_lang # << >>
  /\ Len(built) = 2 /\ built[2].mandatory
  /\ lines # << >> /\ lines[Len(lines)] = built[2]

\* The characters of the Text items of the line in text[s .. e), trailing
\* whitespace of text[s .. e) left out.
TextBeforeTrailingSpace(l) ==
  LET e == l.range.start + Len(trim_end(Sub(text, l.range.start, l.upto)))
      at == SelectSeq([p \in 1 .. Len(text) |-> p],
                      LAMBDA p : /\ l.range.start < p /\ p <= e
                                 /\ items[ParLayout_find(p - 1)].kind = "Text")
  IN [i \in 1 .. Len(at) |-> text[at[i]]]

\* The characters whose glyphs the line measures.
MeasuredText(l) ==
  LET shapeds == LineLayout_shapeds(l)
  IN Flatten([i \in 1 .. Len(shapeds) |-> shapeds[i].text])

\* C4: the width of every line ParLayout::line builds is that of its spacing
\* and frames, of the text of its Text items before the trailing whitespace of
\* text[s .. e), and of the hyphen: no trailing whitespace is measured.
C4_TrailingSpaceNotMeasured ==
  \A i \in 1 .. Len(built) :
    ~built[i].panic => MeasuredText(built[i]) = TextBeforeTrailingSpace(built[i])

\* C5: for an empty text break_into_lines returns exactly one line, with an
\* empty range and the size of the shaped empty string.
C5_EmptyTextOneLine ==
  (Broken /\ text = << >>) =>
    /\ Len(lines) = 1
    /\ lines[1].range.start = lines[1].range.end
    /\ lines[1].size = [x |-> shape(<< >>, dir).x, y |-> shape(<< >>, dir).y]

\* The offset of the line break before the i-th one (0 before the first).
BaseBefore(i) == IF i = 1 THEN 0 ELSE LineBreakIterator(text)[i - 1].end

\* C6: with hyphenation active, every line break (end, mandatory) appears in
\* the stream exactly once as (end, mandatory, false); every other candidate of
\* its word is (offset, false, true) with offset strictly between the previous
\* line break and end; the offsets increase strictly and no hyphenated
\* candidate is mandatory.
C6_HyphenatedStream ==
  hyphenation_lang # << >> =>
    LET stream == breakpoints(text)
        base == LineBreakIterator(text)
    IN /\ \A i \in 1 .. Len(base) :
            /\ Cardinality({j \in 1 .. Len(stream) :
                              stream[j] = [end |-> base[i].end,
                                           mandatory |-> base[i].mandatory,
                                           hyphen |-> FALSE]}) = 1
            /\ \A j \in 1 .. Len(stream) :
                 (BaseBefore(i) < stream[j].end /\ stream[j].end <= base[i].end) =>
                   \/ stream[j] = [end |-> base[i].end, mandatory |-> base[i].mandatory,
                                   hyphen |-> FALSE]
                   \/ /\ stream[j].hyphen /\ ~stream[j].mandatory
                      /\ stream[j].end < base[i].end
       /\ \A j \in 1 .. Len(stream) :
            /\ 0 < stream[j].end /\ stream[j].end <= Len(text)
            /\ ~(stream[j].hyphen /\ stream[j].mandatory)
            /\ j < Len(stream) => stream[j].end < stream[j + 1].end

\* C6 witness: hyphenation is on because HYPHENATE is auto and JUSTIFY is set,
\* the text has more than one line break, and a word that ends at a mandatory
\* one has a hyphenated candidate.
C6_Witness ==
  /\ hyphenate = "auto" /\ justify /\ hyphenation_lang # << >>
  /\ Len(LineBreakIterator(text)) > 1
  /\ \E i \in 1 .. Len(LineBreakIterator(text)), j \in 1 .. Len(breakpoints(text)) :
       /\ LineBreakIterator(text)[i].mandatory
       /\ breakpoints(text)[j].hyphen
       /\ BaseBefore(i) < breakpoints(text)[j].end
       /\ breakpoints(text)[j].end < LineBreakIterator(text)[i].end

\* The frames of the lines built so far, in the order they were built.
BuiltFrames ==
  LET regs == Append(finished, output)
      per == [r \in 1 .. Len(regs) |->
                [k \in 1 .. Len(regs[r].children) |-> regs[r].children[k].frame]]
  IN Flatten(per)

\* C7: in every line frame that build justified, the content ends at the
\* target width: the slack is all distributed over the spaces.
C7_JustifiedFillsWidth ==
  pc \in {"stack", "done"} =>
    \A i \in 1 .. Len(BuiltFrames) :
      BuiltFrames[i].justified =>
        BuiltFrames[i].offset = BuiltFrames[i].size.x * BuiltFrames[i].scale

\* C8: for every line ParLayout::line builds, reordered() visits each item of
\* items() exactly once.
C8_ReorderedIsPermutation ==
  \A i \in 1 .. Len(built) :
    ~built[i].panic =>
      LET idx == reordered_indices(built[i])
          n == Len(LineLayout_items(built[i]))
      IN /\ Len(idx) = n
         /\ \A k \in 1 .. n : \E m \in 1 .. Len(idx) : idx[m] = k

\* C9: stack_lines returns one frame more than it advanced regions, so at
\* least one; it advanced only from a region that was not the last and that the
\* line at hand did not fit; and the lines built into the frames, frame after
\* frame, are the lines it was given, each once and in order.
C9_OneFramePerRegion ==
  /\ \A i \in 1 .. Len(advances) : ~advances[i].fits /\ ~advances[i].in_last
  /\ pc = "stack" =>
       /\ Len(finished) = Len(advances)
       /\ [i \in 1 .. Len(BuiltFrames) |-> BuiltFrames[i].line]
            = SubSeq(lines, 1, Len(lines) - Len(todo))
  /\ pc = "done" =>
       /\ Len(finished) = Len(advances) + 1
       /\ LET lined == Flatten([r \in 1 .. Len(finished) |->
                                  [k \in 1 .. Len(finished[r].children) |->
                                     finished[r].children[k].frame.line]])
          IN lined = lines

\* C9 witness: stack_lines returned three frames for two or more lines.
C9_Witness ==
  pc = "done" /\ Len(finished) = 3 /\ Len(lines) >= 2 /\ Len(finished[3].children) >= 1

\* C10 as stated: whenever a candidate's line overflowed with a line saved, the
\* saved line and then the rebuilt line were committed at that candidate: the
\* rebuilt line is the last of `lines`, start is the candidate and last is None.
C10_RebuiltAlwaysCommitted ==
  (pc = "break" /\ Len(built) = 2) =>
    /\ Len(lines) >= 2
    /\ lines[Len(lines)] = built[2]
    /\ lines[Len(lines) - 1].upto = built[2].range.start
    /\ start = built[2].upto
    /\ last = << >>

\* C10 amended: whenever a candidate's line overflowed with a line saved, the
\* saved line was committed and the line was rebuilt from the saved line's end
\* to the candidate; the rebuilt line was committed at that candidate (start
\* the candidate, last None) if the candidate is mandatory or the rebuilt line
\* still overflows, and otherwise it became the saved line (start the former
\* saved line's end, last the rebuilt line).
C10_RebuiltCommittedOrSaved ==
  (pc = "break" /\ Len(built) = 2) =>
    LET rebuilt == built[2]
    IN /\ rebuilt = line(rebuilt.range.start, taken[Len(taken)].end,
                         taken[Len(taken)].mandatory, taken[Len(taken)].hyphen)
       /\ rebuilt.range.start > built[1].range.start
       /\ IF rebuilt.mandatory \/ rebuilt.size.x > width
          THEN /\ Len(lines) >= 2
               /\ lines[Len(lines)] = rebuilt
               /\ lines[Len(lines) - 1].upto = rebuilt.range.start
               /\ start = rebuilt.upto
               /\ last = << >>
          ELSE /\ Len(lines) >= 1
               /\ lines[Len(lines)].upto = rebuilt.range.start
               /\ start = rebuilt.range.start
               /\ last = <<[line |-> rebuilt, end |-> rebuilt.upto]>>

\* C10 witness: a rebuilt line that fits and is not mandatory was saved.
C10_Witness ==
  pc = "break" /\ Len(built) = 2 /\ last # << >> /\ last[1].line = built[2]

\* The offset of the break candidate immediately before offset e, or 0.
PreviousCandidate(e) ==
  LET cs == breakpoints(text)
      before == {cs[j].end : j \in {k \in 1 .. Len(cs) : cs[k].end < e}}
  IN IF before = {} THEN 0 ELSE CHOOSE m \in before : \A n \in before : n <= m

\* C11: every committed line whose measured width exceeds the width starts at
\* the break candidate immediately before the candidate it ends at (or at 0),
\* so no candidate lies strictly inside it; and at every iteration of the loop
\* last is None if and only if start is the previous candidate's offset (0
\* before the first candidate).
C11_OverflowingLineIsOneInterval ==
  pc # "panic" =>
    /\ \A i \in 1 .. Len(lines) :
         lines[i].size.x > width =>
           /\ lines[i].range.start = PreviousCandidate(lines[i].upto)
           /\ \A j \in 1 .. Len(breakpoints(text)) :
                ~(/\ lines[i].range.start < breakpoints(text)[j].end
                  /\ breakpoints(text)[j].end < lines[i].upto)
    /\ pc = "break" =>
         (last = << >> <=>
            start = IF taken = << >> THEN 0 ELSE taken[Len(taken)].end)

\* C11 witness: the line rebuilt after a saved line still overflows and is
\* committed, with a candidate before the saved line's end.
C11_Witness ==
  /\ pc = "break" /\ Len(built) = 2 /\ built[2].size.x > width
  /\ lines # << >> /\ lines[Len(lines)] = built[2]
  /\ Len(taken) >= 3

\* C12: for a non-empty text whose ParLayout was built, every call of
\* ParLayout::line that break_into_lines makes has 0 <= start < end <= len(text), find(end - 1) and
\* find(start) both find an item, the first at or before the last, and no
\* unwrap panics; the item ranges ParLayout::new built are non-empty, each
\* starts where the one before ends, and together they cover [0, len(text)).
C12_LineLookupsSucceed ==
  (Len(text) > 0 /\ pc # "err") =>
    /\ pc # "panic"
    /\ \A k \in 1 .. Len(built) :
         /\ ~built[k].panic
         /\ 0 <= built[k].range.start
         /\ built[k].range.start < built[k].upto
         /\ built[k].upto <= Len(text)
         /\ ParLayout_find(built[k].upto - 1) # 0
         /\ ParLayout_find(built[k].range.start) # 0
         /\ ParLayout_find(built[k].range.start) <= ParLayout_find(built[k].upto - 1)
    /\ Len(items) = Len(ranges)
    /\ ranges # << >>
    /\ ranges[1].start = 0
    /\ ranges[Len(ranges)].end = Len(text)
    /\ \A i \in 1 .. Len(ranges) : ranges[i].start < ranges[i].end
    /\ \A i \in 1 .. Len(ranges) - 1 : ranges[i].end = ranges[i + 1].start

\* C12 witness: in a paragraph with an empty Text child between two others, a
\* line was rebuilt after a line over several items overflowed.
C12_Witness ==
  /\ pc = "break" /\ Len(built) = 2 /\ Len(built[1].ranges) >= 2
  /\ \E i \in 2 .. Len(par) - 1 : par[i].str = << >>
  /\ Len(items) < Len(par)

\* C13: in stack_lines, once a line is stacked into the current region,
\* output.size.y + leading + regions.first.y is the height the region had when
\* it was entered; and a region frame all of whose lines passed the fits check
\* is at most as high as its region.
C13_StackedHeightAccounting ==
  pc \in {"stack", "done"} =>
    /\ ~first => output.size.y + leading + regions.first_y = entered.height
    /\ entered.fitted => output.size.y <= entered.height

\* C13 witness: two lines that both passed the fits check are stacked in one
\* region, with leading between them, and a third line is still to come.
C13_Witness ==
  /\ pc = "stack" /\ ~first /\ Len(output.children) >= 2
  /\ entered.fitted
  /\ todo # << >>

====
